---- MODULE Spec2Model ----
(***************************************************************************)
(* A model of app.py, the Streamlit script "ML Interpreter".               *)
(*                                                                         *)
(* Data is abstracted as follows.  A table is the sequence of the values   *)
(* of its target column; a row of the feature matrix is its pandas index   *)
(* label (its 1-based position in the table), so that row alignment can be *)
(* observed.  Python sequences are 0-based and are kept as TLA+ sequences; *)
(* PyGet does the index arithmetic, negative indices included.  Scores are *)
(* fixed-point numbers in thousandths.  The learners and the explainers    *)
(* of the libraries are opaque: a fit yields a model of the library's      *)
(* kind, a prediction is any class code the model was fit on for each      *)
(* row, and an explainer is given by the rows, classes and scores the      *)
(* script hands to it or takes from it.                                    *)
(***************************************************************************)
EXTENDS Integers, Sequences, FiniteSets, TLC

VARIABLES ui, run, flt, loc, glb

None == "None"

(***************************************************************************)
(* Bounds: the rows of an uploaded table, and the sizes of the inputs of    *)
(* the harnesses that apply the pure functions.                            *)
(***************************************************************************)
MaxRows == 2
MaxFilterRows == 3
MaxLocalRows == 3
MaxFeatures == 6

Classes == {0, 1, 2}

(***************************************************************************)
(* Python / numpy helpers.                                                 *)
(***************************************************************************)
\* numpy, pandas .iloc: an integer index i into n items is legal for -n <= i < n
PyIndexOK(n, i) == i >= -n /\ i < n

\* s[i] in Python: negative indices count from the end
PyGet(s, i) == IF i >= 0 THEN s[i + 1] ELSE s[Len(s) + i + 1]

\* a[mask] with a boolean mask of the length of a: the items whose mask is set, in order
RECURSIVE BoolIndex(_, _)
BoolIndex(a, mask) ==
    IF a = <<>> THEN <<>>
    ELSE (IF Head(mask) THEN <<Head(a)>> ELSE <<>>) \o BoolIndex(Tail(a), Tail(mask))

RowIds(n) == [i \in 1..n |-> i]

(***************************************************************************)
(* filter_misclassified (app.py 98-103).                                   *)
(***************************************************************************)
filter_misclassified_labels_unmasked(X_test, y_test, pred) ==
    LET idx_misclassified == [i \in 1..Len(pred) |-> pred[i] # y_test[i]]
    IN  [X |-> BoolIndex(X_test, idx_misclassified),
         y |-> y_test,
         pred |-> BoolIndex(pred, idx_misclassified)]

filter_misclassified(X_test, y_test, pred) ==
    LET idx_misclassified == [i \in 1..Len(pred) |-> pred[i] # y_test[i]]
    IN  [X |-> BoolIndex(X_test, idx_misclassified),
         y |-> BoolIndex(y_test, idx_misclassified),
         pred |-> BoolIndex(pred, idx_misclassified)]

(***************************************************************************)
(* show_local_interpretation_shap (app.py 130-147).  shap_values is        *)
(* computed on X_test, so its row slider_idx is the row of X_test at       *)
(* slider_idx.  The record names what is handed to shap.force_plot.        *)
(***************************************************************************)
IndexError == [kind |-> "IndexError"]

show_local_interpretation_shap_first_row(X_test, pred, slider_idx) ==
    IF ~PyIndexOK(Len(pred), slider_idx) \/ ~PyIndexOK(Len(X_test), slider_idx)
    THEN IndexError
    ELSE LET pred_i == PyGet(pred, 0)
         IN  [kind |-> "shap",
              expected_value_class |-> pred_i,
              shap_values_class |-> pred_i,
              shap_values_row |-> PyGet(X_test, slider_idx),
              features_row |-> PyGet(X_test, slider_idx)]

show_local_interpretation_shap(X_test, pred, slider_idx) ==
    IF ~PyIndexOK(Len(pred), slider_idx) \/ ~PyIndexOK(Len(X_test), slider_idx)
    THEN IndexError
    ELSE LET pred_i == PyGet(pred, slider_idx)
         IN  [kind |-> "shap",
              expected_value_class |-> pred_i,
              shap_values_class |-> pred_i,
              shap_values_row |-> PyGet(X_test, slider_idx),
              features_row |-> PyGet(X_test, slider_idx)]

(***************************************************************************)
(* show_local_interpretation_eli5 (app.py 106-127): the document is        *)
(* dataset.iloc[slider_idx]; the XGBoost branch (native) passes neither    *)
(* target_names nor targets.                                               *)
(***************************************************************************)
LocalTop == 5

show_local_interpretation_eli5(dataset, target_labels, model_dim, slider_idx) ==
    IF ~PyIndexOK(Len(dataset), slider_idx)
    THEN IndexError
    ELSE IF model_dim = "XGBoost"
         THEN [kind |-> "eli5", doc |-> PyGet(dataset, slider_idx), native |-> TRUE,
               target_names |-> <<>>, targets |-> <<>>, top |-> LocalTop]
         ELSE [kind |-> "eli5", doc |-> PyGet(dataset, slider_idx), native |-> FALSE,
               target_names |-> target_labels, targets |-> <<TRUE>>, top |-> LocalTop]

(***************************************************************************)
(* Global interpretation.  A ranking is a sequence of records              *)
(* [feature, weight], weights in thousandths.                              *)
(***************************************************************************)
Abs(v) == IF v < 0 THEN -v ELSE v

\* DataFrame.round(2) on thousandths: to the nearest hundredth, ties to even
Round2(v) ==
    LET q == v \div 10
        r == v % 10
    IN  IF r < 5 THEN 10 * q
        ELSE IF r > 5 THEN 10 * (q + 1)
        ELSE IF q % 2 = 0 THEN 10 * q ELSE 10 * (q + 1)

\* the features of w in descending order of weight (ties: lower feature first)
RECURSIVE ArgsortDesc(_, _)
ArgsortDesc(w, left) ==
    IF left = {} THEN <<>>
    ELSE LET f == CHOOSE g \in left :
                    \A h \in left : w[g] > w[h] \/ (w[g] = w[h] /\ g <= h)
         IN  <<f>> \o ArgsortDesc(w, left \ {f})

FirstK(s, k) == IF Len(s) <= k THEN s ELSE SubSeq(s, 1, k)

Positive(v) == v > 0

\* eli5.explain_weights_df(perm, top=top): the top largest importances in
\* descending order.  Whether those that are not positive are dropped from
\* the table is decided inside eli5 (drop_nonpositive).
explain_weights_df(w, top, drop_nonpositive) ==
    LET largest == FirstK(ArgsortDesc(w, DOMAIN w), top)
        kept == IF drop_nonpositive
                THEN SelectSeq(largest, LAMBDA f : Positive(w[f]))
                ELSE largest
    IN  [k \in 1..Len(kept) |-> [feature |-> kept[k], weight |-> w[kept[k]]]]

GlobalTop == 5
ShapMaxDisplay == 5

\* show_global_interpretation_eli5 (app.py 73-86)
show_global_interpretation_eli5_untruncated(perm_weights, drop_nonpositive) ==
    LET df_global_explain ==
            explain_weights_df(perm_weights, Len(perm_weights), drop_nonpositive)
    IN  [k \in 1..Len(df_global_explain) |->
            [feature |-> df_global_explain[k].feature,
             weight |-> Round2(df_global_explain[k].weight)]]

show_global_interpretation_eli5(perm_weights, drop_nonpositive) ==
    LET df_global_explain == explain_weights_df(perm_weights, GlobalTop, drop_nonpositive)
    IN  [k \in 1..Len(df_global_explain) |->
            [feature |-> df_global_explain[k].feature,
             weight |-> Round2(df_global_explain[k].weight)]]

\* shap.summary_plot(..., plot_type="bar", max_display=...): the features in
\* descending order of their mean absolute SHAP value, cut to max_display
summary_plot_bar(shap_values, max_display) ==
    LET mean_abs == [f \in DOMAIN shap_values |-> Abs(shap_values[f])]
        order == FirstK(ArgsortDesc(mean_abs, DOMAIN mean_abs), max_display)
    IN  [k \in 1..Len(order) |-> [feature |-> order[k], weight |-> mean_abs[order[k]]]]

\* show_global_interpretation_shap (app.py 89-95)
show_global_interpretation_shap(shap_values) ==
    summary_plot_bar(shap_values, ShapMaxDisplay)

(***************************************************************************)
(* Data sources.  A missing cell of an uploaded CSV is NaN.                *)
(***************************************************************************)
NaN == "NaN"

\* the target column of an uploaded CSV file (app.py 216-223)
UploadTables == UNION {[1..n -> {"a", "b", NaN}] : n \in 1..MaxRows}

\* sns.load_dataset('iris') (app.py 225-226): the species column, three
\* classes of equal size in blocks; nine rows stand for the 150, so that, as
\* there, the test set has several rows and every class stays in the training set
IrisSpecies ==
    <<"setosa", "setosa", "setosa", "versicolor", "versicolor", "versicolor",
      "virginica", "virginica", "virginica">>

\* shap.datasets.adult() (app.py 229): the boolean target (income above 50K),
\* whose first row is False; six rows stand for the 32561, so that, as there,
\* the test set has several rows and both classes stay in the training set
AdultTarget == <<"False", "True", "False", "False", "True", "True">>

\* Series.unique(): the distinct values in order of first appearance (NaN is one value)
RECURSIVE UniqueFrom(_, _)
UniqueFrom(s, seen) ==
    IF s = <<>> THEN <<>>
    ELSE IF Head(s) \in seen THEN UniqueFrom(Tail(s), seen)
         ELSE <<Head(s)>> \o UniqueFrom(Tail(s), seen \cup {Head(s)})

Unique(s) == UniqueFrom(s, {})

NotNaN(v) == v # NaN

\* pd.factorize(values)[0]: the 0-based position of each value among the
\* distinct values that are not missing, in order of first appearance; a
\* missing value has the code -1
Factorize(s) ==
    LET uniques == Unique(SelectSeq(s, NotNaN))
    IN  [i \in 1..Len(s) |->
            IF s[i] = NaN THEN -1
            ELSE (CHOOSE k \in 1..Len(uniques) : uniques[k] = s[i]) - 1]

\* encode_data (app.py 48-55); X is the feature rows, by index label
encode_data(data) ==
    [X |-> RowIds(Len(data)), y |-> Factorize(data), target_labels |-> Unique(data)]

\* the census path (app.py 229-231): y is the boolean target itself, and a
\* boolean is the integer 0 or 1
BoolAsInt(b) == IF b = "True" THEN 1 ELSE 0

load_census(target) ==
    [X |-> RowIds(Len(target)),
     y |-> [i \in 1..Len(target) |-> BoolAsInt(target[i])],
     target_labels |-> Unique(target)]

(***************************************************************************)
(* splitdata (app.py 58-62): train_size = 0.80, the rest is the test set.  *)
(***************************************************************************)
NTrain(n) == (80 * n) \div 100
NTest(n) == n - NTrain(n)

\* the orders in which k of the rows 1..n can be drawn
RECURSIVE Draws(_, _)
Draws(from, k) ==
    IF k = 0 THEN {<<>>}
    ELSE UNION {{<<i>> \o d : d \in Draws(from \ {i}, k - 1)} : i \in from}

Range(s) == {s[i] : i \in DOMAIN s}

\* the rows that are not test rows; their order among the training rows is
\* not observed by any later step, they are kept in table order
RECURSIVE Ascending(_, _)
Ascending(n, keep) ==
    IF n = 0 THEN <<>>
    ELSE Ascending(n - 1, keep) \o (IF n \in keep THEN <<n>> ELSE <<>>)

(***************************************************************************)
(* The models (app.py 242-264).  A trained model carries the kind of the   *)
(* library object it is.                                                   *)
(***************************************************************************)
NoClf == [kind |-> "None"]

lgbm_params_binary_from_two(target_labels) ==
    IF Len(target_labels) >= 2
    THEN [objective |-> "multiclass", class_weight |-> "balanced"]
    ELSE [objective |-> "binary", class_weight |-> None]

\* app.py 248-258
lgbm_params(target_labels) ==
    IF Len(target_labels) > 2
    THEN [objective |-> "multiclass", class_weight |-> "balanced"]
    ELSE [objective |-> "binary", class_weight |-> None]

train(model_dim, y_train, target_labels) ==
    IF model_dim = "randomforest"
    THEN [kind |-> "RandomForestClassifier", n_estimators |-> 500,
          classes |-> Range(y_train)]
    ELSE IF model_dim = "lightGBM"
    THEN [kind |-> "LGBMClassifier", params |-> lgbm_params(target_labels),
          classes |-> Range(y_train)]
    ELSE [kind |-> "Booster", max_depth |-> 5, num_class |-> Len(target_labels),
          classes |-> Range(y_train)]

\* make_pred (app.py 65-70): is X_test wrapped in a DMatrix?
wraps_DMatrix_any_booster(model_dim) == model_dim # "randomforest"

wraps_DMatrix(model_dim) == model_dim = "XGBoost"

\* Booster.predict takes a DMatrix only; the sklearn estimators take the frame only
predict_accepts(clf, wrapped) == wrapped <=> (clf.kind = "Booster")

(***************************************************************************)
(* show_local_interpretation (app.py 150-162).                             *)
(***************************************************************************)
slider_max_n_data(n_data) == n_data

\* the upper end of st.slider (app.py 153)
slider_max(n_data) == n_data - 1

NoSlider == [max |-> -2, value |-> 0]

\* st.slider(label, 0, max): a slider of other ends is another widget and
\* starts at its lower end; the same slider keeps the value the user gave it
render_slider(state, max) ==
    IF state.max = max THEN state ELSE [max |-> max, value |-> 0]

NoLocal == [kind |-> "None"]

show_local_interpretation(X_test, y_test, pred, target_labels, model_dim, dim_framework, slider_idx) ==
    LET n_data == Len(X_test)
    IN  IF \/ ~PyIndexOK(Len(pred), slider_idx)
           \/ ~PyIndexOK(Len(y_test), slider_idx)
           \/ ~PyIndexOK(Len(target_labels), PyGet(pred, slider_idx))
           \/ ~PyIndexOK(Len(target_labels), PyGet(y_test, slider_idx))
        THEN [kind |-> "local", X |-> X_test, y |-> y_test, pred |-> pred,
              slider_idx |-> slider_idx, model_dim |-> model_dim,
              text |-> <<>>, res |-> IndexError]
        ELSE [kind |-> "local", X |-> X_test, y |-> y_test, pred |-> pred,
              slider_idx |-> slider_idx, model_dim |-> model_dim,
              text |-> <<PyGet(target_labels, PyGet(pred, slider_idx)),
                         PyGet(target_labels, PyGet(y_test, slider_idx))>>,
              res |-> IF dim_framework = "SHAP"
                      THEN show_local_interpretation_shap(X_test, pred, slider_idx)
                      ELSE show_local_interpretation_eli5(
                               X_test, target_labels, model_dim, slider_idx)]

\* the test of app.py 327
no_rows_never(X_test) == FALSE

no_rows(X_test) == Len(X_test) = 0

(***************************************************************************)
(* The script: one pass of main() (app.py 207-336) per rerun.  ui is the   *)
(* state of the widgets, which outlives a pass; run holds the locals of    *)
(* the pass under way and the steps it has taken.                          *)
(***************************************************************************)
ModelDims == {"lightGBM", "XGBoost", "randomforest"}
Frameworks == {"SHAP", "ELI5"}

DefaultUi ==
    [data_dim |-> "iris", uploaded_file |-> <<>>, model_dim |-> "lightGBM",
     dim_framework |-> "SHAP", filter |-> FALSE, slider |-> NoSlider]

FreshRun ==
    [pc |-> "load", source |-> "None", raw |-> <<>>, X |-> <<>>, y |-> <<>>,
     target_labels |-> <<>>,
     X_train |-> <<>>, X_test |-> <<>>, y_train |-> <<>>, y_test |-> <<>>,
     model_dim |-> "None", clf |-> NoClf,
     wrapped |-> FALSE, pred |-> <<>>,
     steps |-> {}, global |-> "None", outcome |-> "None", local |-> NoLocal,
     error |-> "None"]

IdleFlt == [pc |-> "idle"]
IdleLoc == [pc |-> "idle"]
IdleGlb == [pc |-> "idle"]

Init ==
    /\ ui = DefaultUi
    /\ run = FreshRun
    /\ flt = IdleFlt
    /\ loc = IdleLoc
    /\ glb = IdleGlb

\* app.py 211-231
LoadData ==
    /\ run.pc = "load"
    /\ LET source == IF ui.uploaded_file # <<>> THEN "upload" ELSE ui.data_dim
           raw == IF source = "upload" THEN ui.uploaded_file
                  ELSE IF source = "iris" THEN IrisSpecies ELSE AdultTarget
           enc == IF source = "census income" THEN load_census(raw) ELSE encode_data(raw)
       IN  run' = [run EXCEPT !.pc = "split", !.source = source, !.raw = raw,
                              !.X = enc.X, !.y = enc.y,
                              !.target_labels = enc.target_labels,
                              !.steps = {"load"}]
    /\ UNCHANGED <<ui, flt, loc, glb>>

\* app.py 236-237: train_test_split raises when a side of the split is empty
SplitFails ==
    /\ run.pc = "split"
    /\ NTrain(Len(run.X)) = 0 \/ NTest(Len(run.X)) = 0
    /\ run' = [run EXCEPT !.pc = "error", !.error = "ValueError in train_test_split"]
    /\ UNCHANGED <<ui, flt, loc, glb>>

\* app.py 236-237: the shuffle of train_test_split puts any NTest rows, in
\* any order, into the test set
SplitData ==
    /\ run.pc = "split"
    /\ NTrain(Len(run.X)) > 0 /\ NTest(Len(run.X)) > 0
    /\ \E test \in Draws(1..Len(run.X), NTest(Len(run.X))) :
         LET rest == Ascending(Len(run.X), (1..Len(run.X)) \ Range(test))
         IN  run' = [run EXCEPT !.pc = "train",
                                !.X_test = [k \in 1..Len(test) |-> run.X[test[k]]],
                                !.y_test = [k \in 1..Len(test) |-> run.y[test[k]]],
                                !.X_train = [k \in 1..Len(rest) |-> run.X[rest[k]]],
                                !.y_train = [k \in 1..Len(rest) |-> run.y[rest[k]]],
                                !.steps = @ \cup {"split"}]
    /\ UNCHANGED <<ui, flt, loc, glb>>

\* app.py 242-264: the model choice is read and the model of that kind is fit
Train ==
    /\ run.pc = "train"
    /\ run' = [run EXCEPT !.pc = "predict",
                          !.model_dim = ui.model_dim,
                          !.clf = train(ui.model_dim, run.y_train, run.target_labels),
                          !.steps = @ \cup {"train"}]
    /\ UNCHANGED <<ui, flt, loc, glb>>

\* app.py 269: the model predicts one of the classes it was fit on for each test row
Predict ==
    /\ run.pc = "predict"
    /\ LET wrapped == wraps_DMatrix(run.model_dim)
       IN  IF predict_accepts(run.clf, wrapped)
           THEN \E pred \in [1..Len(run.X_test) -> run.clf.classes] :
                   run' = [run EXCEPT !.pc = "global", !.wrapped = wrapped,
                                      !.pred = pred, !.steps = @ \cup {"predict"}]
           ELSE run' = [run EXCEPT !.pc = "error", !.wrapped = wrapped,
                                   !.error = "TypeError in predict"]
    /\ UNCHANGED <<ui, flt, loc, glb>>

\* app.py 281-302: the framework choice is read and the global explanation
\* of that framework is drawn
GlobalInterpretation ==
    /\ run.pc = "global"
    /\ run' = [run EXCEPT !.pc = "local", !.global = ui.dim_framework,
                          !.steps = @ \cup {"global"}]
    /\ UNCHANGED <<ui, flt, loc, glb>>

\* app.py 300-302, 75-76: PermutationImportance is written for scikit-learn
\* estimators, and the Booster of xgb.train is none; whether its fit takes
\* the Booster or raises is decided inside eli5 and scikit-learn
GlobalInterpretationFails ==
    /\ run.pc = "global"
    /\ ui.dim_framework = "ELI5"
    /\ run.clf.kind = "Booster"
    /\ run' = [run EXCEPT !.pc = "error", !.global = ui.dim_framework,
                          !.error = "TypeError in PermutationImportance"]
    /\ UNCHANGED <<ui, flt, loc, glb>>

\* app.py 325-328: the filter is on and leaves no row
NoMisclassification ==
    /\ run.pc = "local"
    /\ ui.filter
    /\ LET f == filter_misclassified(run.X_test, run.y_test, run.pred)
       IN  /\ no_rows(f.X)
           /\ run' = [run EXCEPT !.pc = "done", !.outcome = "No misclassification",
                                 !.X_test = f.X, !.y_test = f.y, !.pred = f.pred]
    /\ ui' = [ui EXCEPT !.slider = NoSlider]
    /\ UNCHANGED <<flt, loc, glb>>

\* the slider of show_local_interpretation and the explanation of the row it gives
Explain(X_test, y_test, pred) ==
    LET slider == render_slider(ui.slider, slider_max(Len(X_test)))
        shown == show_local_interpretation(X_test, y_test, pred, run.target_labels,
                     run.model_dim, run.global, slider.value)
    IN  /\ ui' = [ui EXCEPT !.slider = slider]
        /\ run' = [run EXCEPT !.pc = IF shown.res = IndexError THEN "error" ELSE "done",
                              !.error = IF shown.res = IndexError THEN "IndexError"
                                        ELSE "None",
                              !.outcome = "explained",
                              !.X_test = X_test, !.y_test = y_test, !.pred = pred,
                              !.local = shown, !.steps = @ \cup {"local"}]

\* app.py 325-333: the filter is on and leaves rows
LocalOfMisclassified ==
    /\ run.pc = "local"
    /\ ui.filter
    /\ LET f == filter_misclassified(run.X_test, run.y_test, run.pred)
       IN  /\ ~no_rows(f.X)
           /\ Explain(f.X, f.y, f.pred)
    /\ UNCHANGED <<flt, loc, glb>>

\* app.py 334-336
LocalOfAll ==
    /\ run.pc = "local"
    /\ ~ui.filter
    /\ Explain(run.X_test, run.y_test, run.pred)
    /\ UNCHANGED <<flt, loc, glb>>

(***************************************************************************)
(* The user.  A change of a widget stops the pass under way and starts     *)
(* the script again from its first line.                                   *)
(***************************************************************************)
Rerun(widgets) ==
    /\ ui' = widgets
    /\ run' = FreshRun
    /\ UNCHANGED <<flt, loc, glb>>

ChooseData == \E d \in {"iris", "census income"} \ {ui.data_dim} :
    Rerun([ui EXCEPT !.data_dim = d])

Upload == \E t \in (UploadTables \cup {<<>>}) \ {ui.uploaded_file} :
    Rerun([ui EXCEPT !.uploaded_file = t])

ChooseModel == \E m \in ModelDims \ {ui.model_dim} :
    Rerun([ui EXCEPT !.model_dim = m])

ChooseFramework == \E f \in Frameworks \ {ui.dim_framework} :
    Rerun([ui EXCEPT !.dim_framework = f])

ToggleFilter == Rerun([ui EXCEPT !.filter = ~ui.filter])

\* the slider is on the page once a pass has drawn it
MoveSlider ==
    /\ run.pc = "done"
    /\ run.outcome = "explained"
    /\ \E v \in (0..ui.slider.max) \ {ui.slider.value} :
         Rerun([ui EXCEPT !.slider.value = v])

Next ==
    \/ LoadData \/ SplitFails \/ SplitData \/ Train \/ Predict
    \/ GlobalInterpretation \/ GlobalInterpretationFails
    \/ NoMisclassification \/ LocalOfMisclassified \/ LocalOfAll
    \/ ChooseData \/ Upload \/ ChooseModel \/ ChooseFramework \/ ToggleFilter
    \/ MoveSlider

vars == <<ui, run, flt, loc, glb>>

Spec == Init /\ [][Next]_vars

(***************************************************************************)
(* Properties of the script.                                               *)
(***************************************************************************)
Ran(step) == step \in run.steps

\* C2: when the filter is on and leaves no row, the pass ends with the text
\* 'No misclassification', without an error and without a local explanation
\* of either framework; with the filter on, a local explanation is only ever
\* made of a row set that has a row.
C2_EmptyFilterSkipsLocal ==
    /\ (ui.filter /\ Ran("global") /\ run.pc # "local" /\ run.X_test = <<>>) =>
          /\ run.pc = "done"
          /\ run.error = "None"
          /\ run.outcome = "No misclassification"
          /\ run.local = NoLocal
          /\ ~Ran("local")
    /\ (ui.filter /\ run.local # NoLocal) => Len(run.local.X) >= 1

\* a pass with the filter on in which every test row was predicted right
C2_Witness ==
    /\ ui.filter
    /\ run.pc = "done"
    /\ run.outcome = "No misclassification"
    /\ run.X_test = <<>>
    /\ run.clf # NoClf

AdapterOf(model_dim) ==
    IF model_dim = "randomforest" THEN "RandomForestClassifier"
    ELSE IF model_dim = "lightGBM" THEN "LGBMClassifier" ELSE "Booster"

FirstAppearanceOrder(labels, s) ==
    /\ Range(labels) = Range(s)
    /\ \A j, k \in 1..Len(labels) : j < k =>
          /\ labels[j] # labels[k]
          /\ \E a \in 1..Len(s) :
                /\ s[a] = labels[j]
                /\ \A b \in 1..Len(s) : s[b] = labels[k] => a < b

\* C4 (as claimed): on every data path and for every row, the code in the
\* target vector is an index into target_labels, target_labels lists the
\* labels in the order of their first appearance, and target_labels[code] is
\* the label of that row.
C4_CodesIndexTheirLabels ==
    Ran("load") =>
        /\ FirstAppearanceOrder(run.target_labels, run.raw)
        /\ \A i \in 1..Len(run.raw) :
              /\ run.y[i] \in 0..(Len(run.target_labels) - 1)
              /\ run.target_labels[run.y[i] + 1] = run.raw[i]

Balanced(clf) == clf.params.class_weight = "balanced"

\* C7 (as claimed): lightGBM is given the multiclass objective exactly when
\* there are more than two distinct target labels, the binary one otherwise,
\* and class weights are balanced in the binary case.
C7_BalancedWhenBinary ==
    (Ran("train") /\ run.clf.kind = "LGBMClassifier") =>
        /\ run.clf.params.objective =
              (IF Cardinality(Range(run.raw)) > 2 THEN "multiclass" ELSE "binary")
        /\ run.clf.params.objective = "binary" => Balanced(run.clf)

\* C7 (amended): lightGBM is given the multiclass objective exactly when there
\* are more than two distinct target labels, the binary one otherwise, and
\* class weights are balanced in the multiclass case and only then.
C7_BalancedWhenMulticlass ==
    (Ran("train") /\ run.clf.kind = "LGBMClassifier") =>
        /\ run.clf.params.objective =
              (IF Cardinality(Range(run.raw)) > 2 THEN "multiclass" ELSE "binary")
        /\ Balanced(run.clf) <=> (run.clf.params.objective = "multiclass")

\* lightGBM fit on an uploaded table of two labels: binary, no class weights
C7_Witness ==
    /\ Ran("train")
    /\ run.source = "upload"
    /\ run.clf.kind = "LGBMClassifier"
    /\ Cardinality(Range(run.raw)) = 2
    /\ run.clf.params.objective = "binary"
    /\ ~Balanced(run.clf)

\* C9 (as claimed): when y_train has fewer than two distinct classes the
\* training step fails: the pass halts there with no trained model, and it
\* neither predicts nor explains.
C9_OneClassHaltsThePass ==
    (Ran("split") /\ run.pc # "train" /\ Cardinality(Range(run.y_train)) < 2) =>
        /\ run.pc = "error"
        /\ run.clf = NoClf
        /\ ~Ran("predict") /\ ~Ran("global") /\ ~Ran("local")

\* C10: whenever a pass makes a local explanation, the index the slider gives
\* is in [0, n-1] for the n rows of the row set explained; the rows, the true
\* labels and the predictions all have n entries and are those of this pass:
\* test rows of its split with their own codes and the pass's predictions,
\* all of the test rows without the filter and misclassified ones with it.
C10_SliderWithinCurrentRowSet ==
    run.local # NoLocal =>
        LET L == run.local
            n == Len(L.X)
        IN  /\ n >= 1
            /\ L.slider_idx \in 0..(n - 1)
            /\ L.slider_idx = ui.slider.value
            /\ Len(L.y) = n /\ Len(L.pred) = n
            /\ L.X = run.X_test /\ L.y = run.y_test /\ L.pred = run.pred
            /\ \A k \in 1..n :
                  /\ L.X[k] \in Range(run.X) \ Range(run.X_train)
                  /\ L.y[k] = run.y[L.X[k]]
                  /\ L.pred[k] \in run.clf.classes
            /\ \A j, k \in 1..n : j # k => L.X[j] # L.X[k]
            /\ IF ui.filter THEN \A k \in 1..n : L.pred[k] # L.y[k]
               ELSE n = NTest(Len(run.X))

\* with the filter on, the second of two misclassified rows is explained
C10_Witness ==
    /\ ui.filter
    /\ run.pc = "done"
    /\ run.local # NoLocal
    /\ Len(run.local.X) = 2
    /\ run.local.slider_idx = 1
    /\ run.local.res # IndexError

(***************************************************************************)
(* Harness of the filter: any three row-aligned inputs of equal length.    *)
(***************************************************************************)
FilterInputs ==
    UNION {[X : {RowIds(n)}, y : [1..n -> Classes], pred : [1..n -> Classes]] :
             n \in 0..MaxFilterRows}

FilterInit ==
    /\ flt \in [pc : {"ready"}, in : FilterInputs, out : {None}]
    /\ loc = IdleLoc
    /\ glb = IdleGlb
    /\ ui = DefaultUi
    /\ run = FreshRun

FilterCall ==
    /\ flt.pc = "ready"
    /\ flt' = [flt EXCEPT !.pc = "done",
                          !.out = filter_misclassified(flt.in.X, flt.in.y, flt.in.pred)]
    /\ UNCHANGED <<ui, run, loc, glb>>

FilterNext == FilterCall

SpecFilter == FilterInit /\ [][FilterNext]_vars

(***************************************************************************)
(* Harness of the two local explainers: any row set, any row_index.        *)
(***************************************************************************)
\* the rows of a (possibly filtered) row set carry the index labels 11, 12, ...
LocalRows(n) == [i \in 1..n |-> 10 + i]

LocalInputs ==
    UNION {[X : {LocalRows(n)}, y : [1..n -> {0, 1}], pred : [1..n -> {0, 1}],
            idx : (-(MaxLocalRows + 1))..(MaxLocalRows + 1),
            model_dim : ModelDims] : n \in 0..MaxLocalRows}

LocalInit ==
    /\ loc \in [pc : {"ready"}, in : LocalInputs, res : {None}]
    /\ flt = IdleFlt
    /\ glb = IdleGlb
    /\ ui = DefaultUi
    /\ run = FreshRun

LocalShapCall ==
    /\ loc.pc = "ready"
    /\ loc' = [loc EXCEPT !.pc = "done",
                          !.res = show_local_interpretation_shap(
                                      loc.in.X, loc.in.pred, loc.in.idx)]
    /\ UNCHANGED <<ui, run, flt, glb>>

LocalEli5Call ==
    /\ loc.pc = "ready"
    /\ loc' = [loc EXCEPT !.pc = "done",
                          !.res = show_local_interpretation_eli5(
                                      loc.in.X, <<"a", "b">>, loc.in.model_dim, loc.in.idx)]
    /\ UNCHANGED <<ui, run, flt, glb>>

LocalNext == LocalShapCall \/ LocalEli5Call

SpecLocal == LocalInit /\ [][LocalNext]_vars

LocalInRange == loc.in.idx \in 0..(Len(loc.in.X) - 1)

\* C5: the SHAP local explanation of row i of the row set takes the expected
\* value and the contribution array of the class pred[i] (which is not the true
\* class y_test[i] when the row is misclassified), and the contributions and
\* the feature values are those of row i of that row set.
C5_ShapUsesPredictedClass ==
    (loc.pc = "done" /\ LocalInRange /\ loc.res.kind = "shap") =>
        LET i == loc.in.idx + 1
        IN  /\ loc.res.expected_value_class = loc.in.pred[i]
            /\ loc.res.shap_values_class = loc.in.pred[i]
            /\ loc.res.shap_values_row = loc.in.X[i]
            /\ loc.res.features_row = loc.in.X[i]
            /\ (loc.in.pred[i] # loc.in.y[i] =>
                    /\ loc.res.expected_value_class # loc.in.y[i]
                    /\ loc.res.shap_values_class # loc.in.y[i])

\* a misclassified row that is not the first is explained, and the other rows
\* are predicted differently
C5_Witness ==
    /\ loc.pc = "done"
    /\ loc.res.kind = "shap"
    /\ loc.in.idx = 2
    /\ loc.in.pred = <<0, 0, 1>>
    /\ loc.in.y = <<0, 0, 0>>
    /\ loc.res.expected_value_class = 1

\* C8 (as claimed): a row_index outside [0, row_count-1], a negative one
\* included, ends in an index error and explains no row.
C8_OutOfRangeFails ==
    (loc.pc = "done" /\ ~LocalInRange) => loc.res = IndexError

(***************************************************************************)
(* Harness of the two global explainers: any trained model, given by its   *)
(* per-feature scores (permutation importances, resp. SHAP values).        *)
(***************************************************************************)
Scores == {-12, 4, 15, 26}

GlobalInputs ==
    UNION {[scores : [1..n -> Scores], drop_nonpositive : BOOLEAN] : n \in 1..MaxFeatures}

GlobalInit ==
    /\ glb \in [pc : {"ready"}, in : GlobalInputs, framework : {None}, ranking : {<<>>}]
    /\ flt = IdleFlt
    /\ loc = IdleLoc
    /\ ui = DefaultUi
    /\ run = FreshRun

GlobalEli5Call ==
    /\ glb.pc = "ready"
    /\ glb' = [glb EXCEPT !.pc = "done", !.framework = "ELI5",
                          !.ranking = show_global_interpretation_eli5(
                                          glb.in.scores, glb.in.drop_nonpositive)]
    /\ UNCHANGED <<ui, run, flt, loc>>

GlobalShapCall ==
    /\ glb.pc = "ready"
    /\ glb' = [glb EXCEPT !.pc = "done", !.framework = "SHAP",
                          !.ranking = show_global_interpretation_shap(glb.in.scores)]
    /\ UNCHANGED <<ui, run, flt, loc>>

GlobalNext == GlobalEli5Call \/ GlobalShapCall

SpecGlobal == GlobalInit /\ [][GlobalNext]_vars

DescendingAbs(r) == \A k \in 1..(Len(r) - 1) : Abs(r[k].weight) >= Abs(r[k + 1].weight)
Descending(r) == \A k \in 1..(Len(r) - 1) : r[k].weight >= r[k + 1].weight
Rounded(r) == \A k \in 1..Len(r) : r[k].weight % 10 = 0

\* C6 (as claimed): for both methodologies the ranking is sorted by descending
\* absolute score, has at most top_k = 5 entries, exactly 5 when the model has
\* at least 5 features, and its scores are rounded to the display precision.
C6_RankingAsClaimed ==
    glb.pc = "done" =>
        /\ DescendingAbs(glb.ranking)
        /\ Len(glb.ranking) <= GlobalTop
        /\ (Len(glb.in.scores) >= GlobalTop => Len(glb.ranking) = GlobalTop)
        /\ Rounded(glb.ranking)

\* C6 (amended): for both methodologies the ranking is in descending order of
\* score and has at most 5 entries; the permutation scores are the
\* importances rounded to two decimals, the SHAP scores are the unrounded mean
\* absolute values and there are exactly min(5, features) of them.
C6_RankingAmended ==
    glb.pc = "done" =>
        /\ Descending(glb.ranking)
        /\ Len(glb.ranking) <= 5
        /\ \A k \in 1..Len(glb.ranking) :
              LET e == glb.ranking[k]
              IN  /\ e.feature \in DOMAIN glb.in.scores
                  /\ glb.framework = "ELI5" => e.weight = Round2(glb.in.scores[e.feature])
                  /\ glb.framework = "SHAP" => e.weight = Abs(glb.in.scores[e.feature])
        /\ glb.framework = "ELI5" => Rounded(glb.ranking)
        /\ glb.framework = "SHAP" =>
              Len(glb.ranking) = (IF Len(glb.in.scores) < 5 THEN Len(glb.in.scores) ELSE 5)

\* the permutation ranking of a model with six features of positive
\* importance: five entries, one of them changed by the rounding
C6_Witness ==
    /\ glb.pc = "done"
    /\ glb.framework = "ELI5"
    /\ Len(glb.in.scores) = 6
    /\ \A f \in 1..6 : glb.in.scores[f] > 0
    /\ Len(glb.ranking) = 5
    /\ \E k \in 1..5 : glb.ranking[k].weight # glb.in.scores[glb.ranking[k].feature]

\* the positions of the misclassified rows
Misclassified(in) == {i \in 1..Len(in.pred) : in.pred[i] # in.y[i]}

\* C1: the three outputs of filter_misclassified are the rows at the positions
\* where pred differs from y_test, in their original order and with one index
\* set for all three: the k-th output row of each comes from the k-th such
\* position, the row count is the number of such positions, and it is zero
\* when pred equals y_test everywhere.
C1_FilterIsAlignedSubsequence ==
    flt.pc = "done" =>
        LET in == flt.in
            out == flt.out
            mis == Misclassified(in)
        IN  /\ Len(out.X) = Cardinality(mis)
            /\ Len(out.y) = Cardinality(mis)
            /\ Len(out.pred) = Cardinality(mis)
            /\ \A k \in 1..Cardinality(mis) :
                 \E i \in mis :
                    /\ Cardinality({j \in mis : j < i}) = k - 1
                    /\ out.X[k] = in.X[i]
                    /\ out.y[k] = in.y[i]
                    /\ out.pred[k] = in.pred[i]
            /\ (in.pred = in.y => out.X = <<>> /\ out.y = <<>> /\ out.pred = <<>>)

\* three rows of which the first and the last are misclassified: the filter
\* has skipped a row and kept two
C1_Witness ==
    /\ flt.pc = "done"
    /\ Len(flt.in.pred) = 3
    /\ Misclassified(flt.in) = {1, 3}
    /\ flt.out.X = <<1, 3>>

====
